---- MODULE Spec2Model ----
(***************************************************************************)
(* Model of the UNO game server, backend/server.py: the stored GameState   *)
(* of one game and the handlers create_new_game, play_card, draw_card and  *)
(* call_uno that read it, change it and write it back.                     *)
(***************************************************************************)
EXTENDS Integers, Sequences, FiniteSets, TLC

VARIABLES players, current_player_index, direction, discard_pile, top_card,
          draw_pile_count, winner, game_over, last_action, response, locals

gameVars == <<players, current_player_index, direction, discard_pile,
              top_card, draw_pile_count, winner, game_over, last_action>>

\* locals: the local variables of the handlers that are under way (none in
\* Spec, where every handler runs from its load to its store in one step)
vars == <<players, current_player_index, direction, discard_pile, top_card,
          draw_pile_count, winner, game_over, last_action, response, locals>>

(***************************************************************************)
(* Bounds of the model.                                                    *)
(***************************************************************************)
\* draw_card is explored for at most MaxDraws draws per game
MaxDraws == 1
\* play_card is explored while the discard pile is shorter than MaxDiscard
MaxDiscard == 14
\* the cards draw_card synthesizes use the first MaxColors colors ...
MaxColors == 1
\* ... and the first MaxNum number values
MaxNum == 1

(***************************************************************************)
(* Cards and the deck.                                                     *)
(***************************************************************************)
None == "None"

Card(color, value) == [color |-> color, value |-> value]

colors == <<"red", "blue", "green", "yellow">>

\* str(num) for num in 0..9
str(num) == <<"0", "1", "2", "3", "4", "5", "6", "7", "8", "9">>[num + 1]

HandSize == 7

\* the three loops of create_deck, in order
NumberCards ==
    [i \in 1..76 |->
        LET color == colors[((i - 1) \div 19) + 1]
            k == (i - 1) % 19
        IN  IF k = 0 THEN Card(color, "0") ELSE Card(color, str((k + 1) \div 2))]

ActionCards ==
    [i \in 1..24 |->
        LET color == colors[((i - 1) \div 6) + 1]
            k == (i - 1) % 3
        IN  Card(color, <<"skip", "reverse", "draw2">>[k + 1])]

\* the wild cards with one wild and three wild4 in every four
WildCards_uneven ==
    [i \in 1..8 |-> IF i % 4 = 1 THEN Card("wild", "wild") ELSE Card("wild", "wild4")]

WildCards ==
    [i \in 1..8 |-> IF i % 2 = 1 THEN Card("wild", "wild") ELSE Card("wild", "wild4")]

create_deck == NumberCards \o ActionCards \o WildCards

\* can_play_card without the match on the value
can_play_card_color_only(card, top) ==
    IF card.color = "wild" THEN TRUE
    ELSE IF card.color = top.color THEN TRUE
    ELSE FALSE

can_play_card(card, top) ==
    IF card.color = "wild" THEN TRUE
    ELSE IF card.color = top.color THEN TRUE
    ELSE IF card.value = top.value THEN TRUE
    ELSE FALSE

(***************************************************************************)
(* random.shuffle(deck): any permutation of the deck.  A permutation is    *)
(* named by its tail, the positions of the cards that come to lie at the   *)
(* end of the deck, tail[1] last (so that deck.pop() yields tail[1] first);*)
(* the other cards keep their order in front of them.                      *)
(***************************************************************************)
Reverse(s) == [i \in 1..Len(s) |-> s[Len(s) + 1 - i]]

shuffle(deck, tail) ==
    LET T == {tail[k] : k \in DOMAIN tail}
        K == (1..Len(deck)) \ T
        rest == [j \in 1..Cardinality(K) |->
                    deck[CHOOSE p \in K : Cardinality({q \in K : q <= p}) = j]]
    IN  rest \o Reverse([k \in DOMAIN tail |-> deck[tail[k]]])

\* player_hand = [deck.pop() for _ in range(7)], for the j-th name
player_hand(deck, j) ==
    [i \in 1..HandSize |-> deck[Len(deck) - (HandSize * (j - 1) + i) + 1]]

ids == <<"id1", "id2", "id3", "id4">>

deal(deck, player_names) ==
    [j \in 1..Len(player_names) |->
        [id |-> ids[j], name |-> player_names[j],
         hand |-> player_hand(deck, j), card_count |-> Len(player_hand(deck, j))]]

\* the values the loop of create_new_game sends back, without draw2
IsActionValue_no_draw2(value) == value \in {"wild", "wild4", "skip", "reverse"}

IsActionValue(value) == value \in {"wild", "wild4", "skip", "reverse", "draw2"}

\* top_card = deck.pop(); while it is an action card: deck.insert(0, top_card),
\* random.shuffle(deck), top_card = deck.pop().  reshuffles are the shuffles of
\* the loop; the result is NoCard when they run out before a number card is drawn.
NoCard == Card(None, None)

RECURSIVE initial_top_card(_, _)
initial_top_card(deck, reshuffles) ==
    LET top == deck[Len(deck)]
        popped == SubSeq(deck, 1, Len(deck) - 1)
    IN  IF ~IsActionValue(top.value) THEN [top_card |-> top, deck |-> popped]
        ELSE IF reshuffles = <<>> THEN [top_card |-> NoCard, deck |-> popped]
        ELSE initial_top_card(shuffle(<<top>> \o popped, Head(reshuffles)),
                              Tail(reshuffles))

Response(op, status, action, drawn_card, can_play) ==
    [op |-> op, status |-> status, action |-> action,
     drawn_card |-> drawn_card, can_play |-> can_play]

create_new_game(player_names, shuffles) ==
    LET deck == shuffle(create_deck, Head(shuffles))
        dealt == SubSeq(deck, 1, Len(deck) - HandSize * Len(player_names))
        start == initial_top_card(dealt, Tail(shuffles))
    IN  /\ Len(player_names) >= 2 /\ Len(player_names) <= 4
        /\ start.top_card # NoCard
        /\ players = deal(deck, player_names)
        /\ current_player_index = 0
        /\ direction = 1
        /\ discard_pile = <<start.top_card>>
        /\ top_card = start.top_card
        /\ draw_pile_count = Len(start.deck)
        /\ winner = None
        /\ game_over = FALSE
        /\ last_action = "Game started"
        /\ response = Response("new", "success", None, NoCard, FALSE)

(***************************************************************************)
(* The requests.  A handler that raises HTTPException stores nothing; the  *)
(* response then carries the detail of the exception as its status.        *)
(***************************************************************************)
GameOver == "Game is over"
NotYourTurn == "Not your turn"
CardNotInHand == "Card not in hand"
IllegalPlay == "Invalid card play"
PlayerNotFound == "Player not found"
InvalidUnoCall == "You don't have exactly one card"

\* a rejection that records the refusal in the stored game
reject_recording(op, detail) ==
    /\ response' = Response(op, detail, None, NoCard, FALSE)
    /\ last_action' = detail
    /\ UNCHANGED <<players, current_player_index, direction, discard_pile,
                   top_card, draw_pile_count, winner, game_over>>

reject(op, detail) ==
    /\ response' = Response(op, detail, None, NoCard, FALSE)
    /\ UNCHANGED gameVars

\* index of the last card of hand equal to card in color and value, 0 if none
card_in_hand_last(hand, card) ==
    IF \E i \in 1..Len(hand) : hand[i].color = card.color /\ hand[i].value = card.value
    THEN CHOOSE i \in 1..Len(hand) :
            /\ hand[i].color = card.color /\ hand[i].value = card.value
            /\ \A j \in (i + 1)..Len(hand) :
                    ~(hand[j].color = card.color /\ hand[j].value = card.value)
    ELSE 0

\* index of the first card of hand equal to card in color and value, 0 if none
card_in_hand(hand, card) ==
    IF \E i \in 1..Len(hand) : hand[i].color = card.color /\ hand[i].value = card.value
    THEN CHOOSE i \in 1..Len(hand) :
            /\ hand[i].color = card.color /\ hand[i].value = card.value
            /\ \A j \in 1..(i - 1) : ~(hand[j].color = card.color /\ hand[j].value = card.value)
    ELSE 0

\* hand.pop(idx)
pop(hand, idx) == SubSeq(hand, 1, idx - 1) \o SubSeq(hand, idx + 1, Len(hand))

\* the checks of play_card with the hand looked at before the turn
play_check_hand_first(player_id, card) ==
    LET current_player == players[current_player_index + 1]
    IN  IF game_over THEN GameOver
        ELSE IF card_in_hand(current_player.hand, card) = 0 THEN CardNotInHand
        ELSE IF current_player.id # player_id THEN NotYourTurn
        ELSE IF ~can_play_card(card, top_card) THEN IllegalPlay
        ELSE None

\* the checks of play_card in their order: the detail of the first that fails
play_check(player_id, card) ==
    LET current_player == players[current_player_index + 1]
    IN  IF game_over THEN GameOver
        ELSE IF current_player.id # player_id THEN NotYourTurn
        ELSE IF card_in_hand(current_player.hand, card) = 0 THEN CardNotInHand
        ELSE IF ~can_play_card(card, top_card) THEN IllegalPlay
        ELSE None

\* the played card put on the pile as it was in the hand
recolor_never(played_card, chosen_color) == played_card

\* the wild card color change
recolor(played_card, chosen_color) ==
    IF played_card.color = "wild" /\ chosen_color # None
    THEN Card(chosen_color, played_card.value)
    ELSE played_card

\* next_player_change with draw2 not skipping the next player
next_player_change_draw2_one(value) ==
    IF value = "skip" THEN 2
    ELSE IF value = "wild4" THEN 2
    ELSE 1

next_player_change(value) ==
    IF value = "skip" THEN 2
    ELSE IF value = "reverse" THEN 1
    ELSE IF value = "draw2" THEN 2
    ELSE IF value = "wild4" THEN 2
    ELSE 1

action_of(value) ==
    IF value \in {"skip", "reverse", "draw2", "wild4", "wild"} THEN value ELSE None

play_direction(value, dir) == IF value = "reverse" THEN dir * (-1) ELSE dir

play_last_action(name, played_card) ==
    IF played_card.value = "skip" THEN name \o " played Skip"
    ELSE IF played_card.value = "reverse" THEN name \o " reversed direction"
    ELSE IF played_card.value = "draw2" THEN name \o " played Draw Two"
    ELSE IF played_card.value = "wild4" THEN name \o " played Wild Draw Four"
    ELSE IF played_card.value = "wild" THEN name \o " played Wild"
    ELSE name \o " played " \o played_card.color \o " " \o played_card.value

\* a win that also passes the turn on
play_win_advancing(name) ==
    /\ winner' = name
    /\ game_over' = TRUE
    /\ last_action' = name \o " wins!"
    /\ current_player_index' = (current_player_index + direction) % Len(players)
    /\ UNCHANGED <<direction, draw_pile_count>>
    /\ response' = Response("play", "success", "win", NoCard, FALSE)

\* a win that names no winner
play_win_unnamed(name) ==
    /\ winner' = winner
    /\ game_over' = TRUE
    /\ last_action' = name \o " wins!"
    /\ UNCHANGED <<current_player_index, direction, draw_pile_count>>
    /\ response' = Response("play", "success", "win", NoCard, FALSE)

\* the win branch of play_card: nothing but winner, game_over and last_action
play_win(name) ==
    /\ winner' = name
    /\ game_over' = TRUE
    /\ last_action' = name \o " wins!"
    /\ UNCHANGED <<current_player_index, direction, draw_pile_count>>
    /\ response' = Response("play", "success", "win", NoCard, FALSE)

\* the move to the next player with the remainder that takes the sign of the
\* dividend
play_next_truncated(name, played_card) ==
    /\ direction' = play_direction(played_card.value, direction)
    /\ last_action' = play_last_action(name, played_card)
    /\ current_player_index' =
          LET a == current_player_index
                     + next_player_change(played_card.value) * direction'
          IN  IF a >= 0 THEN a % Len(players) ELSE 0 - ((0 - a) % Len(players))
    /\ UNCHANGED <<winner, game_over, draw_pile_count>>
    /\ response' = Response("play", "success", action_of(played_card.value), NoCard, FALSE)

\* the action cards and the move to the next player
play_next(name, played_card) ==
    /\ direction' = play_direction(played_card.value, direction)
    /\ last_action' = play_last_action(name, played_card)
    /\ current_player_index' =
          (current_player_index
             + next_player_change(played_card.value) * direction') % Len(players)
    /\ UNCHANGED <<winner, game_over, draw_pile_count>>
    /\ response' = Response("play", "success", action_of(played_card.value), NoCard, FALSE)

\* play_card that appends to the pile and leaves top_card as it was
play_card_stale_top(player_id, card, chosen_color) ==
    IF play_check(player_id, card) # None
    THEN reject("play", play_check(player_id, card))
    ELSE LET i == current_player_index + 1
             idx == card_in_hand(players[i].hand, card)
             hand == pop(players[i].hand, idx)
             played_card == recolor(players[i].hand[idx], chosen_color)
         IN  /\ players' = [players EXCEPT ![i].hand = hand, ![i].card_count = Len(hand)]
             /\ discard_pile' = Append(discard_pile, played_card)
             /\ top_card' = top_card
             /\ IF Len(hand) = 0 THEN play_win(players[i].name)
                                ELSE play_next(players[i].name, played_card)

\* play_card that puts the played card under the pile
play_card_discard_under(player_id, card, chosen_color) ==
    IF play_check(player_id, card) # None
    THEN reject("play", play_check(player_id, card))
    ELSE LET i == current_player_index + 1
             idx == card_in_hand(players[i].hand, card)
             hand == pop(players[i].hand, idx)
             played_card == recolor(players[i].hand[idx], chosen_color)
         IN  /\ players' = [players EXCEPT ![i].hand = hand, ![i].card_count = Len(hand)]
             /\ discard_pile' = <<played_card>> \o discard_pile
             /\ top_card' = played_card
             /\ IF Len(hand) = 0 THEN play_win(players[i].name)
                                ELSE play_next(players[i].name, played_card)

play_card(player_id, card, chosen_color) ==
    IF play_check(player_id, card) # None
    THEN reject("play", play_check(player_id, card))
    ELSE LET i == current_player_index + 1
             idx == card_in_hand(players[i].hand, card)
             hand == pop(players[i].hand, idx)
             played_card == recolor(players[i].hand[idx], chosen_color)
         IN  /\ players' = [players EXCEPT ![i].hand = hand, ![i].card_count = Len(hand)]
             /\ discard_pile' = Append(discard_pile, played_card)
             /\ top_card' = played_card
             /\ IF Len(hand) = 0 THEN play_win(players[i].name)
                                ELSE play_next(players[i].name, played_card)

\* the not-your-turn and game-over checks of draw_card
draw_check(player_id) ==
    IF game_over THEN GameOver
    ELSE IF players[current_player_index + 1].id # player_id THEN NotYourTurn
    ELSE None

\* a draw that always passes the turn on
draw_next_player_always(can_play) ==
    (current_player_index + direction) % Len(players)

\* the index after a draw: one seat on when the drawn card cannot be played
draw_next_player(can_play) ==
    IF ~can_play THEN (current_player_index + direction) % Len(players)
    ELSE current_player_index

\* draw_card that leaves card_count as it was
draw_card_stale_count(player_id, new_card) ==
    IF draw_check(player_id) # None
    THEN reject("draw", draw_check(player_id))
    ELSE LET i == current_player_index + 1
             hand == Append(players[i].hand, new_card)
             can_play == can_play_card(new_card, top_card)
         IN  /\ players' = [players EXCEPT ![i].hand = hand]
             /\ draw_pile_count' = IF draw_pile_count - 1 > 0 THEN draw_pile_count - 1 ELSE 0
             /\ last_action' = players[i].name \o " drew a card"
             /\ current_player_index' = draw_next_player(can_play)
             /\ UNCHANGED <<direction, discard_pile, top_card, winner, game_over>>
             /\ response' = Response("draw", "success", None, new_card, can_play)

\* draw_card that counts the pile down without the floor at 0
draw_card_unfloored(player_id, new_card) ==
    IF draw_check(player_id) # None
    THEN reject("draw", draw_check(player_id))
    ELSE LET i == current_player_index + 1
             hand == Append(players[i].hand, new_card)
             can_play == can_play_card(new_card, top_card)
         IN  /\ players' = [players EXCEPT ![i].hand = hand, ![i].card_count = Len(hand)]
             /\ draw_pile_count' = draw_pile_count - 1
             /\ last_action' = players[i].name \o " drew a card"
             /\ current_player_index' = draw_next_player(can_play)
             /\ UNCHANGED <<direction, discard_pile, top_card, winner, game_over>>
             /\ response' = Response("draw", "success", None, new_card, can_play)

draw_card(player_id, new_card) ==
    IF draw_check(player_id) # None
    THEN reject("draw", draw_check(player_id))
    ELSE LET i == current_player_index + 1
             hand == Append(players[i].hand, new_card)
             can_play == can_play_card(new_card, top_card)
         IN  /\ players' = [players EXCEPT ![i].hand = hand, ![i].card_count = Len(hand)]
             /\ draw_pile_count' = IF draw_pile_count - 1 > 0 THEN draw_pile_count - 1 ELSE 0
             /\ last_action' = players[i].name \o " drew a card"
             /\ current_player_index' = draw_next_player(can_play)
             /\ UNCHANGED <<direction, discard_pile, top_card, winner, game_over>>
             /\ response' = Response("draw", "success", None, new_card, can_play)

\* next((p for p in players if p.id == player_id), None), as an index, 0 if none
find_player(player_id) ==
    IF \E j \in 1..Len(players) : players[j].id = player_id
    THEN CHOOSE j \in 1..Len(players) :
            /\ players[j].id = player_id
            /\ \A k \in 1..(j - 1) : players[k].id # player_id
    ELSE 0

\* UNO accepted for any non-empty hand
has_uno_nonempty(hand) == Len(hand) >= 1

has_uno(hand) == Len(hand) = 1

call_uno(player_id) ==
    LET j == find_player(player_id)
    IN  IF j = 0 THEN reject("uno", PlayerNotFound)
        ELSE IF has_uno(players[j].hand)
        THEN /\ last_action' = players[j].name \o " called UNO!"
             /\ response' = Response("uno", "success", None, NoCard, FALSE)
             /\ UNCHANGED <<players, current_player_index, direction, discard_pile,
                            top_card, draw_pile_count, winner, game_over>>
        ELSE reject("uno", InvalidUnoCall)

(***************************************************************************)
(* The inputs.                                                             *)
(***************************************************************************)
\* the outcomes of the random card of draw_card, within the bounds
values == [i \in 1..13 |-> IF i <= 10 THEN str(i - 1)
                           ELSE <<"skip", "reverse", "draw2">>[i - 10]]

DrawColors == {colors[i] : i \in 1..MaxColors}
DrawValues == {values[i] : i \in 1..MaxNum} \cup {values[i] : i \in 11..13}

\* the random card with the wild color put on any value
new_cards_wild_color ==
    {Card("wild", "wild"), Card("wild", "wild4")}
        \cup {Card(color, value) : color \in DrawColors \cup {"wild"}, value \in DrawValues}

new_cards ==
    {Card("wild", "wild"), Card("wild", "wild4")}
        \cup {Card(color, value) : color \in DrawColors, value \in DrawValues}

\* request.player_id: the id of a player, or of nobody
RequestIds == {players[j].id : j \in 1..Len(players)} \cup {"idX"}

\* request.card: a card of the hand of the current player, a card that can be
\* drawn, or no card of the deck at all
RequestCards ==
    LET hand == players[current_player_index + 1].hand
    IN  {hand[i] : i \in 1..Len(hand)}
            \cup new_cards \cup {Card("red", "wild"), Card("wild", "5")}

\* request.chosen_color: absent, or a color of Card
ChosenColors == {None} \cup DrawColors

\* the draws of the game so far
Draws == (Len(create_deck) - HandSize * Len(players) - 1) - draw_pile_count

names == <<"Ann", "Bob", "Cy", "Di">>

(***************************************************************************)
(* The games the model starts from: the player names and the shuffles of   *)
(* create_new_game.  A tail lists deck positions in the order they are     *)
(* popped: 7 cards for each player, then the candidate top card; the       *)
(* shuffles after the first are those of the top-card loop.                *)
(*   position of (color k, "0"): 19k+1; (color k, "v"): 19k+2v, 19k+2v+1;  *)
(*   (color k, skip/reverse/draw2): 76+6k+1..3 and 76+6k+4..6;             *)
(*   wild: 101, 103, ...; wild4: 102, 104, ... (k = 0..3 for red, blue,    *)
(*   green, yellow).                                                       *)
(***************************************************************************)
Games ==
    { \* two players: Ann red 1, red 1, blue 2, blue 2, green 3, green 3,
      \* yellow skip; Bob blue 1, blue 1, green 2, green 2, yellow 3, yellow 3,
      \* red 9; the first top card is yellow draw2, the second red 4
      [player_names |-> SubSeq(names, 1, 2),
       shuffles |-> << <<2, 3, 23, 24, 44, 45, 95,
                         21, 22, 42, 43, 63, 64, 18,
                         100>>,
                       <<7>> >>],
      \* three players: Ann red skip, red reverse, wild, wild4, green 3,
      \* yellow 4, green 5; Bob red skip and Cy red draw2, each with six green
      \* and yellow number cards; top card red 2
      [player_names |-> SubSeq(names, 1, 3),
       shuffles |-> << <<77, 78, 101, 102, 44, 65, 48,
                         80, 50, 71, 54, 75, 63, 46,
                         79, 67, 52, 69, 56, 73, 45,
                         4>> >>],
      \* four players: Ann red reverse, Bob red draw2, Cy red reverse, Di red
      \* skip, each with six green and yellow number cards; top card red 2
      [player_names |-> SubSeq(names, 1, 4),
       shuffles |-> << <<78, 44, 65, 48, 69, 52, 73,
                         79, 46, 67, 50, 71, 54, 75,
                         81, 49, 70, 53, 74, 56, 63,
                         77, 51, 72, 55, 76, 45, 66,
                         4>> >>] }

NoLocals == <<>>

Init ==
    /\ \E g \in Games : create_new_game(g.player_names, g.shuffles)
    /\ locals = NoLocals

Play ==
    \E player_id \in RequestIds, card \in RequestCards, chosen_color \in ChosenColors :
        /\ play_card(player_id, card, chosen_color)
        /\ Len(discard_pile') <= MaxDiscard
        /\ UNCHANGED locals

Draw ==
    \E player_id \in RequestIds, new_card \in new_cards :
        /\ draw_card(player_id, new_card)
        /\ Draws' <= MaxDraws
        /\ UNCHANGED locals

Uno == \E player_id \in RequestIds : call_uno(player_id) /\ UNCHANGED locals

Next == Play \/ Draw \/ Uno

Spec == Init /\ [][Next]_vars

(***************************************************************************)
(* What the claims speak of.                                               *)
(***************************************************************************)
\* the non-negative remainder of a divided by n, for |a| <= 4n
NonNegMod(a, n) == CHOOSE r \in 0..(n - 1) : \E q \in (-4)..4 : a = q * n + r

\* the step is an accepted play, an accepted draw
AcceptedPlay ==
    /\ response'.op = "play" /\ response'.status = "success"
    /\ discard_pile' # discard_pile

AcceptedDraw ==
    /\ response'.op = "draw" /\ response'.status = "success"
    /\ players' # players

\* the player whose turn it is, and the cards of all hands and of the pile
CurrentPlayer == players[current_player_index + 1]

HandCards ==
    UNION {{players[j].hand[i] : i \in 1..Len(players[j].hand)} : j \in 1..Len(players)}

PileCards == {discard_pile[i] : i \in 1..Len(discard_pile)} \cup {top_card}

InHand(card, hand) == \E i \in 1..Len(hand) : hand[i] = card

Matches(card, top) ==
    card.color = "wild" \/ card.color = top.color \/ card.value = top.value

IsWildValue(value) == value \in {"wild", "wild4"}

(***************************************************************************)
(* The claims.                                                             *)
(***************************************************************************)

\* C1: once game_over is true every play, draw and declare_uno request is
\* rejected and the stored game, last_action included, stays as it was.
C1_FrozenAfterGameOver ==
    [][game_over => (response'.status # "success" /\ gameVars' = gameVars)]_vars

\* C2: play_card answers with the first failing check in the order game over,
\* not your turn, card not in hand, illegal play, and accepts when none fails;
\* a player who is not the current player is refused whatever the card.
C2_PlayCheckOrder ==
    \A player_id \in RequestIds, card \in RequestCards, chosen_color \in ChosenColors :
        LET expected ==
                IF game_over THEN GameOver
                ELSE IF player_id # CurrentPlayer.id THEN NotYourTurn
                ELSE IF ~InHand(card, CurrentPlayer.hand) THEN CardNotInHand
                ELSE IF ~Matches(card, top_card) THEN IllegalPlay
                ELSE "success"
        IN  /\ ENABLED (play_card(player_id, card, chosen_color)
                          /\ response'.status = expected)
            /\ ~ENABLED (play_card(player_id, card, chosen_color)
                          /\ response'.status # expected)

\* a player out of turn named a card that is not in the current player's hand
C2_Witness ==
    /\ response.op = "play" /\ response.status = NotYourTurn
    /\ ~game_over

\* C3: a rejected play or draw leaves every field of the stored game unchanged.
C3_RejectionKeepsState ==
    [][(response'.op \in {"play", "draw"} /\ response'.status # "success")
          => /\ players' = players
             /\ current_player_index' = current_player_index
             /\ direction' = direction
             /\ discard_pile' = discard_pile
             /\ top_card' = top_card
             /\ draw_pile_count' = draw_pile_count
             /\ winner' = winner
             /\ game_over' = game_over
             /\ last_action' = last_action]_vars

\* a play of a card of the hand was refused as illegal after the game had moved
C3_Witness ==
    /\ response.op = "play" /\ response.status = IllegalPlay
    /\ Len(discard_pile) > 1
\* C4: in a game that is not over a play by the current player of a card of
\* their hand is accepted exactly when the card is wild or has the color or
\* the value of the top card; a wild card goes on any top card, a card that
\* matches the top card in neither color nor value does not, and so the
\* relation is not symmetric.
C4_Cards ==
    {create_deck[i] : i \in 1..Len(create_deck)}
        \cup {Card(color, value) : color \in {colors[i] : i \in 1..4},
                                   value \in {"wild", "wild4"}}

C4_NotSymmetric ==
    /\ \A card \in C4_Cards, top \in C4_Cards :
          /\ card.color = "wild" => can_play_card(card, top)
          /\ (card.color # "wild" /\ card.color # top.color /\ card.value # top.value)
                => ~can_play_card(card, top)
    /\ \E card \in C4_Cards, top \in C4_Cards :
          can_play_card(card, top) /\ ~can_play_card(top, card)

C4_PlayableIff ==
    /\ C4_NotSymmetric
    /\ ~game_over =>
          \A i \in 1..Len(CurrentPlayer.hand), chosen_color \in ChosenColors :
              LET card == CurrentPlayer.hand[i]
                  playable == \/ card.color = "wild"
                              \/ card.color = top_card.color
                              \/ card.value = top_card.value
              IN  /\ ENABLED (play_card(CurrentPlayer.id, card, chosen_color)
                                /\ (response'.status = "success") = playable)
                  /\ ~ENABLED (play_card(CurrentPlayer.id, card, chosen_color)
                                /\ (response'.status = "success") # playable)

\* a card was accepted on a top card of another color for its value
C4_Witness ==
    /\ response.op = "play" /\ response.status = "success"
    /\ Len(discard_pile) > 1
    /\ top_card.color # "wild"
    /\ top_card.value = discard_pile[Len(discard_pile) - 1].value
    /\ top_card.color # discard_pile[Len(discard_pile) - 1].color

\* C5: after an accepted play that leaves cards in the hand the index is the
\* non-negative remainder of old index + k * d by the number of players, k = 2
\* for skip, draw2 and wild4 and 1 otherwise, d the direction after the play:
\* negated by reverse, as it was otherwise.
C5_NextPlayer ==
    [][(AcceptedPlay /\ Len(players'[current_player_index + 1].hand) > 0)
          => LET value == top_card'.value
                 k == IF value \in {"skip", "draw2", "wild4"} THEN 2 ELSE 1
                 d == IF value = "reverse" THEN 0 - direction ELSE direction
             IN  /\ direction' = d
                 /\ current_player_index' =
                       NonNegMod(current_player_index + k * d, Len(players))]_vars

\* three players, reverse played at index 0: direction -1 and index 2
C5_Witness ==
    /\ Len(players) = 3
    /\ response.op = "play" /\ response.action = "reverse"
    /\ direction = -1
    /\ current_player_index = 2

\* C6: an accepted play of the last card of the hand sets game_over and the
\* winner's name, answers "win", and leaves index and direction as they were.
C6_WinStopsTheTurn ==
    [][(AcceptedPlay /\ Len(players'[current_player_index + 1].hand) = 0)
          => /\ game_over' = TRUE
             /\ winner' = players[current_player_index + 1].name
             /\ response'.action = "win"
             /\ current_player_index' = current_player_index
             /\ direction' = direction]_vars

\* a hand was emptied with a skip
C6_Witness ==
    /\ game_over
    /\ response.op = "play" /\ response.action = "win"
    /\ top_card.value = "skip"
    /\ players[current_player_index + 1].hand = <<>>

\* C7: after an accepted draw the index moves one seat in the direction when
\* the drawn card cannot be played on the top card and stays when it can;
\* direction, top_card and discard_pile stay, and the flag of the answer says
\* whether the drawn card can be played.
C7_DrawTurn ==
    [][AcceptedDraw
          => LET drawn == response'.drawn_card
                 playable == \/ drawn.color = "wild"
                             \/ drawn.color = top_card.color
                             \/ drawn.value = top_card.value
             IN  /\ drawn = players'[current_player_index + 1].hand[
                                Len(players'[current_player_index + 1].hand)]
                 /\ response'.can_play = playable
                 /\ current_player_index' =
                       IF playable THEN current_player_index
                       ELSE NonNegMod(current_player_index + direction, Len(players))
                 /\ direction' = direction
                 /\ top_card' = top_card
                 /\ discard_pile' = discard_pile]_vars

\* a card was drawn that cannot be played, against the direction of seats
C7_Witness ==
    /\ response.op = "draw" /\ response.status = "success"
    /\ ~response.can_play
    /\ direction = -1

\* C8: call_uno for an id of no player is refused as player not found; for a
\* player whose hand has not exactly one card it is refused as invalid with the
\* game unchanged; for a player with exactly one card it succeeds and changes
\* nothing but last_action.
C8_UnoCall ==
    \A player_id \in RequestIds :
        LET known == \E j \in 1..Len(players) : players[j].id = player_id
            one == \E j \in 1..Len(players) :
                      players[j].id = player_id /\ Len(players[j].hand) = 1
            expected == IF ~known THEN PlayerNotFound
                        ELSE IF ~one THEN InvalidUnoCall
                        ELSE "success"
            kept == /\ players' = players
                    /\ current_player_index' = current_player_index
                    /\ direction' = direction
                    /\ discard_pile' = discard_pile
                    /\ top_card' = top_card
                    /\ draw_pile_count' = draw_pile_count
                    /\ winner' = winner
                    /\ game_over' = game_over
                    /\ (expected # "success" => last_action' = last_action)
        IN  /\ ENABLED (call_uno(player_id) /\ response'.status = expected /\ kept)
            /\ ~ENABLED (call_uno(player_id) /\ ~(response'.status = expected /\ kept))

\* UNO was called with one card in the hand
C8_Witness ==
    /\ response.op = "uno" /\ response.status = "success"
    /\ \E j \in 1..Len(players) : Len(players[j].hand) = 1

\* C9: a card that is wild in the hand, played with a chosen color, goes on
\* the discard pile and becomes top_card with that color and its own value;
\* played with no chosen color it is accepted and stays wild.
C9_WildColor ==
    ~game_over =>
        \A i \in 1..Len(CurrentPlayer.hand), chosen_color \in ChosenColors :
            LET card == CurrentPlayer.hand[i]
                placed == Card(IF chosen_color = None THEN "wild" ELSE chosen_color,
                               card.value)
                effect == /\ response'.status = "success"
                          /\ top_card' = placed
                          /\ discard_pile' = Append(discard_pile, placed)
            IN  card.color = "wild" =>
                   /\ ENABLED (play_card(CurrentPlayer.id, card, chosen_color) /\ effect)
                   /\ ~ENABLED (play_card(CurrentPlayer.id, card, chosen_color) /\ ~effect)

\* a wild4 lies on the pile in the color that was chosen for it
C9_Witness ==
    /\ response.op = "play" /\ response.action = "wild4"
    /\ top_card = Card("red", "wild4")
    /\ discard_pile[Len(discard_pile)] = top_card

\* C10 as stated: every card of every hand and of the discard pile, and
\* top_card, has the wild color exactly when its value is wild or wild4.
C10_WildIffWildValue ==
    \A card \in HandCards \cup PileCards :
        card.color = "wild" <=> IsWildValue(card.value)

\* C10 as amended: every card of every hand has the wild color exactly when
\* its value is wild or wild4; every card of the discard pile, and top_card,
\* that has the wild color has the value wild or wild4.
C10_WildColorHasWildValue ==
    /\ \A card \in HandCards : card.color = "wild" <=> IsWildValue(card.value)
    /\ \A card \in PileCards : card.color = "wild" => IsWildValue(card.value)

\* a wild card lies on the pile in a chosen color, another still in a hand
C10_Witness ==
    /\ \E card \in PileCards : card.color # "wild" /\ IsWildValue(card.value)
    /\ \E card \in HandCards : card.color = "wild"
\* C11: in every reachable state of a game of 2 to 4 players the index is
\* at least 0 and less than the number of players and direction is +1 or -1,
\* also after a skip played against the direction of seats from index 0 or 1.
C11_TurnPointerInRange ==
    /\ Len(players) \in 2..4
    /\ current_player_index >= 0
    /\ current_player_index < Len(players)
    /\ direction \in {1, -1}

\* four players, draw2 played at index 1 counter-clockwise: 1 - 2 wraps to 3
C11_Witness ==
    /\ Len(players) = 4
    /\ direction = -1
    /\ response.op = "play" /\ response.action = "draw2"
    /\ current_player_index = 3

\* C12: in every reachable state discard_pile is not empty and top_card is
\* its last element.
C12_TopIsLastDiscard ==
    /\ Len(discard_pile) > 0
    /\ top_card = discard_pile[Len(discard_pile)]

\* two cards have been played on the first top card
C12_Witness ==
    /\ response.op = "play" /\ response.status = "success"
    /\ Len(discard_pile) = 3

\* C13: in every stored state card_count is the length of the hand, for every
\* player.
C13_CardCountIsHandLength ==
    \A j \in 1..Len(players) : players[j].card_count = Len(players[j].hand)

\* one player has drawn a card and another has played one
C13_Witness ==
    /\ \E j \in 1..Len(players) : Len(players[j].hand) = HandSize + 1
    /\ \E j \in 1..Len(players) : Len(players[j].hand) = HandSize - 1

(***************************************************************************)
(* create_new_game step by step: the check of the player count, the        *)
(* shuffle, the deal, the loop that draws the top card, and the store.     *)
(* locals holds the handler's position pc and its local variables.         *)
(***************************************************************************)
\* the first shuffles tried for each player count, beside those of Games
MaxShuffles == 10
\* a reshuffle brings one of the first or last MaxPicks cards to the top
MaxPicks == 4

InvalidPlayerCount == "Game requires 2-4 players"

\* the check of the player count with a lower limit of one
valid_player_count_from_one(player_names) ==
    ~(Len(player_names) < 1 \/ Len(player_names) > 4)

valid_player_count(player_names) ==
    ~(Len(player_names) < 2 \/ Len(player_names) > 4)

PlayerNameLists == {SubSeq(names \o <<"Ed">>, 1, n) : n \in 0..5}

\* the k-th first shuffle for n players: the cards popped lie seven apart
shuffle_tail(n, k) ==
    [i \in 1..(HandSize * n + 1) |->
        ((11 * k + 7 * (i - 1)) % Len(create_deck)) + 1]

Shuffles(n) ==
    {g.shuffles[1] : g \in {h \in Games : Len(h.player_names) = n}}
        \cup {shuffle_tail(n, k) : k \in 0..(MaxShuffles - 1)}

\* the number of cards of s that equal card
Count(s, card) == Cardinality({i \in 1..Len(s) : s[i] = card})

\* the kinds of card in the order of their values, then colors
card_kind(k) ==
    Card((colors \o <<"wild">>)[(k % 5) + 1],
         (values \o <<"wild", "wild4">>)[(k \div 5) + 1])

\* the cards of kind k in deck, the one at position p left out
cards_of_kind(deck, p, k) ==
    [i \in 1..(Count(deck, card_kind(k))
                 - (IF deck[p] = card_kind(k) THEN 1 ELSE 0)) |-> card_kind(k)]

\* the cards of the v-th value in deck, the one at position p left out
cards_of_value(deck, p, v) ==
    cards_of_kind(deck, p, 5 * v) \o cards_of_kind(deck, p, 5 * v + 1)
        \o cards_of_kind(deck, p, 5 * v + 2) \o cards_of_kind(deck, p, 5 * v + 3)
        \o cards_of_kind(deck, p, 5 * v + 4)

\* random.shuffle(deck) in the loop: the shuffle that brings the card at
\* position p to the top of the deck and sorts the other cards under it,
\* the ten number values first, then skip, reverse, draw2, wild and wild4
reshuffle(deck, p) ==
    cards_of_value(deck, p, 0) \o cards_of_value(deck, p, 1)
        \o cards_of_value(deck, p, 2) \o cards_of_value(deck, p, 3)
        \o cards_of_value(deck, p, 4) \o cards_of_value(deck, p, 5)
        \o cards_of_value(deck, p, 6) \o cards_of_value(deck, p, 7)
        \o cards_of_value(deck, p, 8) \o cards_of_value(deck, p, 9)
        \o cards_of_value(deck, p, 10) \o cards_of_value(deck, p, 11)
        \o cards_of_value(deck, p, 12) \o cards_of_value(deck, p, 13)
        \o cards_of_value(deck, p, 14) \o <<deck[p]>>

ReshufflePicks(n) == (1..MaxPicks) \cup ((n + 1 - MaxPicks)..n)

NewLocals(pc, player_names, deck, dealt, candidate) ==
    [pc |-> pc, player_names |-> player_names, deck |-> deck,
     players |-> dealt, top_card |-> candidate]

NoGameStored ==
    /\ players = <<>>
    /\ current_player_index = 0
    /\ direction = 1
    /\ discard_pile = <<>>
    /\ top_card = NoCard
    /\ draw_pile_count = 0
    /\ winner = None
    /\ game_over = FALSE
    /\ last_action = None

InitNew ==
    /\ NoGameStored
    /\ response = Response("none", None, None, NoCard, FALSE)
    /\ locals = NewLocals("request", <<>>, <<>>, <<>>, NoCard)

new_game_reject(player_names) ==
    /\ locals.pc = "request"
    /\ ~valid_player_count(player_names)
    /\ reject("new", InvalidPlayerCount)
    /\ locals' = [locals EXCEPT !.pc = "rejected", !.player_names = player_names]

new_game_shuffle(player_names, tail) ==
    /\ locals.pc = "request"
    /\ valid_player_count(player_names)
    /\ locals' = [locals EXCEPT !.pc = "shuffled",
                                !.player_names = player_names,
                                !.deck = shuffle(create_deck, tail)]
    /\ UNCHANGED <<gameVars, response>>

\* the hands, then top_card = deck.pop()
new_game_deal ==
    LET dealt == Len(locals.deck) - HandSize * Len(locals.player_names)
    IN  /\ locals.pc = "shuffled"
        /\ locals' = [locals EXCEPT !.pc = "top",
                                    !.players = deal(locals.deck, locals.player_names),
                                    !.deck = SubSeq(locals.deck, 1, dealt - 1),
                                    !.top_card = locals.deck[dealt]]
        /\ UNCHANGED <<gameVars, response>>

\* a round of the loop that pops a card too many
new_game_retry_dropping(p) ==
    LET deck == <<locals.top_card>> \o locals.deck
        shuffled == reshuffle(deck, p)
    IN  /\ locals.pc = "top"
        /\ IsActionValue(locals.top_card.value)
        /\ locals' = [locals EXCEPT
                        !.deck = SubSeq(shuffled, 1, Len(shuffled) - 2),
                        !.top_card = shuffled[Len(shuffled)]]
        /\ UNCHANGED <<gameVars, response>>

\* a round of the loop that puts the card back on top and does not shuffle
new_game_retry_on_top(p) ==
    /\ locals.pc = "top"
    /\ IsActionValue(locals.top_card.value)
    /\ locals' = [locals EXCEPT
                    !.deck = SubSeq(locals.deck \o <<locals.top_card>>, 1, Len(locals.deck)),
                    !.top_card = (locals.deck \o <<locals.top_card>>)[Len(locals.deck) + 1]]
    /\ UNCHANGED <<gameVars, response>>

\* deck.insert(0, top_card); random.shuffle(deck); top_card = deck.pop()
new_game_retry(p) ==
    LET deck == <<locals.top_card>> \o locals.deck
        shuffled == reshuffle(deck, p)
    IN  /\ locals.pc = "top"
        /\ IsActionValue(locals.top_card.value)
        /\ locals' = [locals EXCEPT
                        !.deck = SubSeq(shuffled, 1, Len(shuffled) - 1),
                        !.top_card = shuffled[Len(shuffled)]]
        /\ UNCHANGED <<gameVars, response>>

new_game_store ==
    /\ locals.pc = "top"
    /\ ~IsActionValue(locals.top_card.value)
    /\ players' = locals.players
    /\ current_player_index' = 0
    /\ direction' = 1
    /\ discard_pile' = <<locals.top_card>>
    /\ top_card' = locals.top_card
    /\ draw_pile_count' = Len(locals.deck)
    /\ winner' = None
    /\ game_over' = FALSE
    /\ last_action' = "Game started"
    /\ response' = Response("new", "success", None, NoCard, FALSE)
    /\ locals' = [locals EXCEPT !.pc = "stored"]

NewGameReject == \E player_names \in PlayerNameLists : new_game_reject(player_names)

NewGameShuffle ==
    \E player_names \in PlayerNameLists :
        \E tail \in Shuffles(Len(player_names)) :
            new_game_shuffle(player_names, tail)

NewGameDeal == new_game_deal

NewGameRetry == \E p \in ReshufflePicks(Len(locals.deck) + 1) : new_game_retry(p)

NewGameStore == new_game_store

NextNew ==
    NewGameReject \/ NewGameShuffle \/ NewGameDeal \/ NewGameRetry \/ NewGameStore

SpecNew == InitNew /\ [][NextNew]_vars

\* the cards a game holds once it is stored: hands, top card, remaining deck
RECURSIVE Hands(_, _)
Hands(ps, j) == IF j = 0 THEN <<>> ELSE Hands(ps, j - 1) \o ps[j].hand

StoredCards == Hands(players, Len(players)) \o <<top_card>> \o locals.deck

IsNumberValue(value) == value \in {str(num) : num \in 0..9}

\* C14: the top card of a stored new game has a value "0".."9" and a color
\* that is not wild, for every first shuffle, every reshuffle and 2..4 players
C14_InitialTopIsNumber ==
    locals.pc = "stored" =>
        /\ IsNumberValue(top_card.value)
        /\ top_card.color \in {colors[c] : c \in 1..4}
        /\ discard_pile[1] = top_card

\* a game stored after a round of the loop: the deck lies in the order of a
\* reshuffle, the four "0" cards first
C14_Witness ==
    /\ locals.pc = "stored"
    /\ locals.deck[1].value = "0" /\ locals.deck[2].value = "0"
    /\ IsNumberValue(top_card.value)

\* C15: a game stored for n names, 2 <= n <= 4, has the n players in the order
\* of the names, each with 7 cards and card_count 7, index 0, direction +1,
\* no winner, not over, the top card alone on the discard pile, a
\* draw_pile_count of 108 - 7n - 1, and in hands, top card and remaining deck
\* together exactly the cards of the deck
C15_NewGameStructure ==
    locals.pc = "stored" =>
        LET n == Len(locals.player_names)
        IN  /\ n \in 2..4
            /\ Len(players) = n
            /\ \A j \in 1..n :
                /\ players[j].name = locals.player_names[j]
                /\ Len(players[j].hand) = 7
                /\ players[j].card_count = 7
                /\ \A k \in 1..n : players[k].id = players[j].id => k = j
            /\ current_player_index = 0
            /\ direction = 1
            /\ game_over = FALSE
            /\ winner = None
            /\ discard_pile = <<top_card>>
            /\ draw_pile_count = 108 - 7 * n - 1
            /\ draw_pile_count = Len(locals.deck)
            /\ Len(StoredCards) = 108
            /\ \A i \in 1..Len(create_deck) :
                Count(StoredCards, create_deck[i]) = Count(create_deck, create_deck[i])

\* a game of four stored after a round of the loop
C15_Witness ==
    /\ locals.pc = "stored"
    /\ Len(players) = 4
    /\ draw_pile_count = 79
    /\ locals.deck[1].value = "0" /\ locals.deck[2].value = "0" /\ locals.deck[3].value = "0"

\* C16: a request with fewer than 2 or more than 4 names is rejected with
\* InvalidPlayerCount and stores no game; a request with 2, 3 or 4 names is not
\* rejected and goes on to the game it stores
C16_PlayerCount ==
    /\ locals.pc = "request" =>
        \A player_names \in PlayerNameLists :
            IF Len(player_names) \in 2..4
            THEN /\ ~ENABLED new_game_reject(player_names)
                 /\ ENABLED (\E tail \in Shuffles(Len(player_names)) :
                                new_game_shuffle(player_names, tail))
            ELSE /\ ENABLED new_game_reject(player_names)
                 /\ ~ENABLED (\E tail \in Shuffles(Len(player_names)) :
                                new_game_shuffle(player_names, tail))
    /\ locals.pc = "rejected" =>
        /\ Len(locals.player_names) \notin 2..4
        /\ response.status = InvalidPlayerCount
        /\ NoGameStored
    /\ locals.pc \in {"shuffled", "top"} =>
        /\ Len(locals.player_names) \in 2..4
        /\ NoGameStored
    /\ locals.pc = "stored" =>
        /\ Len(locals.player_names) \in 2..4
        /\ response.status = "success"
        /\ Len(players) = Len(locals.player_names)

\* five names, rejected
C16_Witness ==
    /\ locals.pc = "rejected"
    /\ Len(locals.player_names) = 5
    /\ response.status = InvalidPlayerCount

\* the cards of the deck in hand at each position of create_new_game: the
\* deck as built, as shuffled, and as dealt and reshuffled
DeckInPlay ==
    IF locals.pc = "shuffled" THEN locals.deck
    ELSE IF locals.pc \in {"top", "stored"}
         THEN Hands(locals.players, Len(locals.players))
                \o <<locals.top_card>> \o locals.deck
         ELSE create_deck

\* the copies of a card that a deck holds
Copies(color, value) ==
    IF color = "wild" THEN (IF IsWildValue(value) THEN 4 ELSE 0)
    ELSE IF IsWildValue(value) THEN 0
    ELSE IF value = "0" THEN 1
    ELSE 2

\* C17: the deck as built has exactly 108 cards: for each of the four colors
\* one "0", two each of "1".."9", skip, reverse and draw2 (25 per color), and
\* four (wild, wild) and four (wild, wild4); every shuffle keeps this multiset
C17_DeckMultiset ==
    /\ Len(DeckInPlay) = 108
    /\ \A color \in {colors[c] : c \in 1..4} \cup {"wild"} :
        \A v \in 1..15 :
            Count(DeckInPlay, Card(color, (values \o <<"wild", "wild4">>)[v]))
                = Copies(color, (values \o <<"wild", "wild4">>)[v])
    /\ \A c \in 1..4 :
        Cardinality({i \in 1..Len(DeckInPlay) : DeckInPlay[i].color = colors[c]}) = 25

\* a shuffled deck whose order is not the order it was built in
C17_Witness ==
    /\ locals.pc = "shuffled"
    /\ Len(locals.deck) = 108
    /\ locals.deck[108] # create_deck[108]
    /\ locals.deck[1] = create_deck[1]

(***************************************************************************)
(* The loop under a fair shuffle: a reshuffle that can bring a number card *)
(* to the top does so in the end, and the handler goes on to its store.    *)
(***************************************************************************)
NewGameRetryNumber ==
    \E p \in ReshufflePicks(Len(locals.deck) + 1) :
        new_game_retry(p) /\ ~IsActionValue(locals'.top_card.value)

SpecNewFair ==
    SpecNew /\ WF_vars(NewGameRetryNumber) /\ WF_vars(NewGameStore)

\* C18: once the first candidate is drawn, the loop ends and the game is
\* stored with a number card on top, for 2, 3 and 4 players, when the shuffle
\* is fair
C18_TopCardLoopEnds ==
    (locals.pc = "top") ~> (locals.pc = "stored" /\ IsNumberValue(top_card.value))

\* a game of three stored after a round of the loop
C18_Witness ==
    /\ locals.pc = "stored"
    /\ draw_pile_count = 86
    /\ locals.deck[1].value = "0" /\ locals.deck[2].value = "0"

(***************************************************************************)
(* Two requests on one game under way at once.  A handler loads the stored *)
(* game (await db.games.find_one), works on its copy, and stores the       *)
(* result (await db.games.replace_one); nothing in the code orders the     *)
(* load and the store of one handler against those of another.  The        *)
(* handlers are written here as functions of the loaded copy.              *)
(***************************************************************************)
game_state ==
    [players |-> players, current_player_index |-> current_player_index,
     direction |-> direction, discard_pile |-> discard_pile, top_card |-> top_card,
     draw_pile_count |-> draw_pile_count, winner |-> winner,
     game_over |-> game_over, last_action |-> last_action]

\* raise HTTPException: the copy is not stored
raised(game, op, detail) ==
    [game |-> game, response |-> Response(op, detail, None, NoCard, FALSE)]

play_card_on(game, player_id, card, chosen_color) ==
    LET i == game.current_player_index + 1
        current_player == game.players[i]
        idx == card_in_hand(current_player.hand, card)
        hand == pop(current_player.hand, idx)
        played_card == recolor(current_player.hand[idx], chosen_color)
        placed == [game EXCEPT !.players[i].hand = hand,
                               !.players[i].card_count = Len(hand),
                               !.discard_pile = Append(@, played_card),
                               !.top_card = played_card]
        dir == play_direction(played_card.value, game.direction)
    IN  IF game.game_over THEN raised(game, "play", GameOver)
        ELSE IF current_player.id # player_id THEN raised(game, "play", NotYourTurn)
        ELSE IF idx = 0 THEN raised(game, "play", CardNotInHand)
        ELSE IF ~can_play_card(card, game.top_card) THEN raised(game, "play", IllegalPlay)
        ELSE IF Len(hand) = 0
        THEN [game |-> [placed EXCEPT !.winner = current_player.name,
                                      !.game_over = TRUE,
                                      !.last_action = current_player.name \o " wins!"],
              response |-> Response("play", "success", "win", NoCard, FALSE)]
        ELSE [game |-> [placed EXCEPT
                          !.direction = dir,
                          !.last_action = play_last_action(current_player.name, played_card),
                          !.current_player_index =
                              (game.current_player_index
                                 + next_player_change(played_card.value) * dir)
                                   % Len(game.players)],
              response |-> Response("play", "success", action_of(played_card.value),
                                    NoCard, FALSE)]

draw_card_on(game, player_id, new_card) ==
    LET i == game.current_player_index + 1
        current_player == game.players[i]
        hand == Append(current_player.hand, new_card)
        can_play == can_play_card(new_card, game.top_card)
    IN  IF game.game_over THEN raised(game, "draw", GameOver)
        ELSE IF current_player.id # player_id THEN raised(game, "draw", NotYourTurn)
        ELSE [game |-> [game EXCEPT
                          !.players[i].hand = hand,
                          !.players[i].card_count = Len(hand),
                          !.draw_pile_count = IF @ - 1 > 0 THEN @ - 1 ELSE 0,
                          !.last_action = current_player.name \o " drew a card",
                          !.current_player_index =
                              IF ~can_play
                              THEN (game.current_player_index + game.direction)
                                      % Len(game.players)
                              ELSE @],
              response |-> Response("draw", "success", None, new_card, can_play)]

call_uno_on(game, player_id) ==
    LET found == {j \in 1..Len(game.players) : game.players[j].id = player_id}
        j == CHOOSE k \in found : \A l \in found : k <= l
    IN  IF found = {} THEN raised(game, "uno", PlayerNotFound)
        ELSE IF has_uno(game.players[j].hand)
        THEN [game |-> [game EXCEPT !.last_action = game.players[j].name \o " called UNO!"],
              response |-> Response("uno", "success", None, NoCard, FALSE)]
        ELSE raised(game, "uno", InvalidUnoCall)

Request(op, player_id, card, chosen_color) ==
    [op |-> op, player_id |-> player_id, card |-> card, chosen_color |-> chosen_color]

NoRequest == Request("none", None, NoCard, None)

\* the handler of a request on a loaded copy; the card of a draw request is
\* the random card the handler makes up
handle(game, request) ==
    IF request.op = "play"
    THEN play_card_on(game, request.player_id, request.card, request.chosen_color)
    ELSE IF request.op = "draw"
    THEN draw_card_on(game, request.player_id, request.card)
    ELSE call_uno_on(game, request.player_id)

Handlers == {1, 2}

InitConc ==
    /\ \E g \in Games : create_new_game(g.player_names, g.shuffles)
    /\ locals = [start |-> game_state,
                 handlers |-> [h \in Handlers |->
                                 [pc |-> "idle", request |-> NoRequest,
                                  game |-> game_state,
                                  response |-> Response("none", None, None, NoCard, FALSE)]]]

\* game = await db.games.find_one(...)
load(h, request) ==
    /\ locals.handlers[h].pc = "idle"
    /\ locals' = [locals EXCEPT !.handlers[h].pc = "loaded",
                                !.handlers[h].request = request,
                                !.handlers[h].game = game_state]
    /\ UNCHANGED <<gameVars, response>>

\* the handler's work on its copy, and await db.games.replace_one(...) when
\* it raises nothing
store(h) ==
    LET result == handle(locals.handlers[h].game, locals.handlers[h].request)
    IN  /\ locals.handlers[h].pc = "loaded"
        /\ locals' = [locals EXCEPT !.handlers[h].pc = "done",
                                    !.handlers[h].response = result.response]
        /\ response' = result.response
        /\ IF result.response.status = "success"
           THEN /\ players' = result.game.players
                /\ current_player_index' = result.game.current_player_index
                /\ direction' = result.game.direction
                /\ discard_pile' = result.game.discard_pile
                /\ top_card' = result.game.top_card
                /\ draw_pile_count' = result.game.draw_pile_count
                /\ winner' = result.game.winner
                /\ game_over' = result.game.game_over
                /\ last_action' = result.game.last_action
           ELSE UNCHANGED gameVars

PlayerIds == {players[j].id : j \in 1..Len(players)}

LoadPlay ==
    \E h \in Handlers, player_id \in PlayerIds, chosen_color \in ChosenColors :
        \E card \in HandCards :
            load(h, Request("play", player_id, card, chosen_color))

LoadDraw ==
    \E h \in Handlers, player_id \in PlayerIds, new_card \in new_cards :
        load(h, Request("draw", player_id, new_card, None))

LoadUno ==
    \E h \in Handlers, player_id \in PlayerIds :
        load(h, Request("uno", player_id, NoCard, None))

Store == \E h \in Handlers : store(h)

NextConc == LoadPlay \/ LoadDraw \/ LoadUno \/ Store

SpecConc == InitConc /\ [][NextConc]_vars

\* the handlers written as functions give what the handlers written as
\* actions give, for every request on every game of Spec
HandlersAgree ==
    /\ \A player_id \in RequestIds, card \in RequestCards, chosen_color \in ChosenColors :
        ENABLED (/\ play_card(player_id, card, chosen_color)
                 /\ game_state' = play_card_on(game_state, player_id, card, chosen_color).game
                 /\ response' = play_card_on(game_state, player_id, card, chosen_color).response)
    /\ \A player_id \in RequestIds, new_card \in new_cards :
        ENABLED (/\ draw_card(player_id, new_card)
                 /\ game_state' = draw_card_on(game_state, player_id, new_card).game
                 /\ response' = draw_card_on(game_state, player_id, new_card).response)
    /\ \A player_id \in RequestIds :
        ENABLED (/\ call_uno(player_id)
                 /\ game_state' = call_uno_on(game_state, player_id).game
                 /\ response' = call_uno_on(game_state, player_id).response)

\* the two requests handled one after the other from the game start
serial(start, first, second) ==
    LET a == handle(start, first.request)
        b == handle(a.game, second.request)
    IN  [game |-> b.game, first |-> a.response, second |-> b.response]

\* C19: when two requests on one game have both been handled, the stored game
\* and the two responses are those of handling the two requests one after
\* the other in one of the two orders
C19_Serialized ==
    (\A h \in Handlers : locals.handlers[h].pc = "done") =>
        \E h \in Handlers :
            LET o == CHOOSE k \in Handlers : k # h
                r == serial(locals.start, locals.handlers[h], locals.handlers[o])
            IN  /\ game_state = r.game
                /\ locals.handlers[h].response = r.first
                /\ locals.handlers[o].response = r.second

(***************************************************************************)
(* A game drawn down to an empty pile.  While more than MaxLeft cards are  *)
(* counted, the player whose turn it is draws, and the random card is one  *)
(* that cannot be played; from then on every request of Spec is made, with *)
(* at most MaxDrainPlays cards played and at most MaxOverdraws cards drawn *)
(* beyond the count of the pile.                                           *)
(***************************************************************************)
MaxLeft == 1
MaxOverdraws == 1
MaxDrainPlays == 1

DrainCard == Card("green", "7")

\* the cards in all hands and on the discard pile
CardsOut == Len(Hands(players, Len(players))) + Len(discard_pile)

InitDrain ==
    /\ \E g \in Games :
        /\ Len(g.player_names) = 2
        /\ create_new_game(g.player_names, g.shuffles)
    /\ locals = NoLocals

DrawFar ==
    /\ draw_pile_count > MaxLeft
    /\ draw_card(CurrentPlayer.id, DrainCard)
    /\ UNCHANGED locals

DrawNear ==
    \E player_id \in RequestIds, new_card \in new_cards :
        /\ draw_pile_count <= MaxLeft
        /\ draw_card(player_id, new_card)
        /\ CardsOut' <= Len(create_deck) + MaxOverdraws
        /\ UNCHANGED locals

PlayNear ==
    \E player_id \in RequestIds, card \in RequestCards, chosen_color \in ChosenColors :
        /\ draw_pile_count <= MaxLeft
        /\ play_card(player_id, card, chosen_color)
        /\ Len(discard_pile') <= 1 + MaxDrainPlays
        /\ UNCHANGED locals

UnoNear ==
    \E player_id \in RequestIds :
        /\ draw_pile_count <= MaxLeft
        /\ call_uno(player_id)
        /\ UNCHANGED locals

NextDrain == DrawFar \/ DrawNear \/ PlayNear \/ UnoNear

SpecDrain == InitDrain /\ [][NextDrain]_vars

\* C20: an accepted draw puts exactly one card, the drawn card, at the end of
\* the hand of the player whose turn it is, leaves the other cards and hands
\* as they are, and sets draw_pile_count to max(0, draw_pile_count - 1); the
\* count is never negative and no step raises it; a draw by the player whose
\* turn it is is accepted and adds a card when the count is 0
C20_DrawCount ==
    /\ [][/\ AcceptedDraw =>
                LET i == current_player_index + 1
                    n == Len(players[i].hand)
                IN  /\ Len(players'[i].hand) = n + 1
                    /\ SubSeq(players'[i].hand, 1, n) = players[i].hand
                    /\ players'[i].hand[n + 1] = response'.drawn_card
                    /\ \A j \in 1..Len(players) : j # i => players'[j] = players[j]
                    /\ draw_pile_count' =
                          IF draw_pile_count >= 1 THEN draw_pile_count - 1 ELSE 0
           /\ draw_pile_count' <= draw_pile_count
           /\ draw_pile_count' >= 0]_vars
    /\ [](draw_pile_count >= 0)
    /\ [](draw_pile_count = 0 /\ ~game_over =>
            \A new_card \in new_cards :
                /\ ENABLED (/\ draw_card(CurrentPlayer.id, new_card)
                            /\ response'.status = "success"
                            /\ Len(players'[current_player_index + 1].hand)
                                  = Len(CurrentPlayer.hand) + 1
                            /\ draw_pile_count' = 0)
                /\ ~ENABLED (/\ draw_card(CurrentPlayer.id, new_card)
                             /\ response'.status # "success"))

\* a card drawn when the count was already 0: all 108 cards are out and one more
C20_Witness ==
    /\ response.op = "draw" /\ response.status = "success"
    /\ draw_pile_count = 0
    /\ CardsOut = Len(create_deck) + 1

\* the card that lies on the pile when card is played from a hand
PlayedAs(card, placed) ==
    \/ placed = card
    \/ /\ card.color = "wild"
       /\ placed.value = card.value
       /\ placed.color \in {colors[c] : c \in 1..4}

C22_DiscardAppendOnly ==
    [][IF response'.op = "play" /\ response'.status = "success"
       THEN /\ discard_pile' = Append(discard_pile, top_card')
            /\ \E idx \in 1..Len(CurrentPlayer.hand) :
                    PlayedAs(CurrentPlayer.hand[idx], top_card')
       ELSE /\ discard_pile' = discard_pile
            /\ top_card' = top_card]_vars

\* a winning play on a pile of at least three cards
C22_Witness ==
    /\ response.op = "play" /\ response.action = "win"
    /\ game_over
    /\ Len(discard_pile) >= 4
    /\ discard_pile[Len(discard_pile)] # discard_pile[1]

\* C23: game_over holds iff a winner is set, iff some hand is empty; then the
\* winner is the name of the player at current_player_index, whose hand is
\* empty; game_over becomes true by an accepted play only
C23_GameOverIffWinner ==
    /\ [](/\ game_over <=> winner # None
          /\ game_over <=> \E j \in 1..Len(players) : Len(players[j].hand) = 0
          /\ game_over =>
                /\ winner = CurrentPlayer.name
                /\ Len(CurrentPlayer.hand) = 0
          /\ ~game_over => \A j \in 1..Len(players) : Len(players[j].hand) >= 1)
    /\ [][(game_over' /\ ~game_over)
            => /\ response'.op = "play" /\ response'.status = "success"
               /\ discard_pile' # discard_pile]_vars

\* a finished game with the winner's hand empty and the others' not
C23_Witness ==
    /\ game_over
    /\ winner = CurrentPlayer.name
    /\ Len(CurrentPlayer.hand) = 0
    /\ \E j \in 1..Len(players) : Len(players[j].hand) >= 1
    /\ last_action = winner \o " wins!"


====
